---- MODULE Spec2Model ----
(***************************************************************************)
(* Model of the Instance router of arpas-backend                           *)
(* (src/app/routes/instances_routes.py): the five handlers create, update, *)
(* get, list and delete over the instances table, with the Project and     *)
(* Item tables they consult.                                               *)
(*                                                                         *)
(* Spec     : the handlers run one at a time, each as one whole call.      *)
(* SpecConc : two requests run concurrently, each in its own session; a    *)
(*            handler is split at its database statements.                 *)
(***************************************************************************)
EXTENDS Integers, Sequences, FiniteSets, TLC

VARIABLES
    projects,   \* ids of the rows of the projects table
    items,      \* ids of the rows of the items table
    instances,  \* the instances table: a set of rows
    op,         \* the call handled last: [name, id, body]
    resp,       \* its response: [status, detail, row, rows, message]
    before,     \* the instances table as it was when that call began
    prev,       \* summary of the call handled before it: [name, id, status, row]
    created,    \* rows returned by the successful creates since the table was
                \* last empty, in call order (kept while pristine)
    pristine,   \* TRUE while no update or delete has succeeded since then
    deleted,    \* when the last call began: the ids a delete had removed and
                \* no create had assigned again since
    reqs,       \* SpecConc: the requests in flight, by request slot
    commits     \* SpecConc: the number of writes committed so far

vars == <<projects, items, instances, op, resp, before, prev, created, pristine,
          deleted, reqs, commits>>

-----------------------------------------------------------------------------
(* Bounds and input domains *)

\* Creates are explored while the id they would assign is at most MaxId.
MaxId == 2

\* The Project and Item rows that may have been stored before the Instance
\* routes are used; none of these routes changes them.
SeedProjects == {1, 2}
SeedItems == {1, 2}

\* instance_id path parameters: every id a row can have, and one beyond.
PathIds == 1 .. (MaxId + 1)

\* Two transforms that differ in each of the nine fields: the one of the
\* spec's concrete scenario, position (0,0,0), rotation (0,0,0), scale
\* (1,1,1), and another.
UnitTransform ==
    [position_x |-> 0, position_y |-> 0, position_z |-> 0,
     rotation_x |-> 0, rotation_y |-> 0, rotation_z |-> 0,
     scale_x |-> 1, scale_y |-> 1, scale_z |-> 1]

OtherTransform ==
    [position_x |-> 11, position_y |-> 12, position_z |-> 13,
     rotation_x |-> 21, rotation_y |-> 22, rotation_z |-> 23,
     scale_x |-> 31, scale_y |-> 32, scale_z |-> 33]

TransformFields ==
    {"position_x", "position_y", "position_z",
     "rotation_x", "rotation_y", "rotation_z",
     "scale_x", "scale_y", "scale_z"}

BodyFields == {"project_id", "item_id"} \cup TransformFields

\* An InstanceCreate request body.
Body(p, i, t) ==
    [project_id |-> p, item_id |-> i,
     position_x |-> t.position_x, position_y |-> t.position_y,
     position_z |-> t.position_z,
     rotation_x |-> t.rotation_x, rotation_y |-> t.rotation_y,
     rotation_z |-> t.rotation_z,
     scale_x |-> t.scale_x, scale_y |-> t.scale_y, scale_z |-> t.scale_z]

\* Bodies whose two foreign keys resolve when every seed row is stored: one,
\* one that differs from it in every field, and one that differs from the
\* first in project_id alone.
ValidBodies ==
    { Body(1, 1, UnitTransform),
      Body(2, 2, OtherTransform),
      Body(2, 1, UnitTransform) }

\* Bodies with a project_id, an item_id, or both, that never resolve (3 is
\* never stored).
InvalidBodies ==
    { Body(3, 1, UnitTransform),
      Body(1, 3, OtherTransform),
      Body(3, 3, UnitTransform) }

Bodies == ValidBodies \cup InvalidBodies

-----------------------------------------------------------------------------
(* Values *)

\* Python's None, as returned by Query.first() when no row matches.
None == [none |-> TRUE]

NoBody == [none |-> TRUE]

\* HTTPException(status_code=404, detail=...)
NotFound(detail) ==
    [status |-> 404, detail |-> detail, row |-> None, rows |-> <<>>, message |-> ""]

\* A 200 response carrying one row (response_model=InstanceRead).
OkRow(row) ==
    [status |-> 200, detail |-> "", row |-> row, rows |-> <<>>, message |-> ""]

\* A 200 response carrying a list of rows (response_model=List[InstanceRead]).
OkRows(rows) ==
    [status |-> 200, detail |-> "", row |-> None, rows |-> rows, message |-> ""]

\* The delete route: status_code=204 with the confirmation message returned.
Deleted ==
    [status |-> 204, detail |-> "", row |-> None, rows |-> <<>>,
     message |-> "Instance deleted successfully"]

NoResp ==
    [status |-> 0, detail |-> "", row |-> None, rows |-> <<>>, message |-> ""]

Ids(tbl) == { r.id : r \in tbl }

-----------------------------------------------------------------------------
(* The queries and writes the handlers issue *)

\* db.query(Instance).filter(Instance.id == instance_id).first()
FirstInstance(tbl, instance_id) ==
    IF \E r \in tbl : r.id = instance_id
    THEN CHOOSE r \in tbl : r.id = instance_id
    ELSE None

\* db.query(Project).filter(Project.id == project_id).first(), as found / None
FirstProject(projs, project_id) ==
    IF project_id \in projs THEN [id |-> project_id] ELSE None

\* db.query(Item).filter(Item.id == item_id).first(), as found / None
FirstItem(its, item_id) ==
    IF item_id \in its THEN [id |-> item_id] ELSE None

\* The id the store assigns to an inserted row: an integer primary key
\* gets one more than the largest id in the table, 1 in an empty table.
NextRowId(tbl) ==
    IF tbl = {} THEN 1
    ELSE (CHOOSE m \in Ids(tbl) : \A k \in Ids(tbl) : k <= m) + 1

\* Mutant of NewInstance: scale_z copied from scale_y.
NewInstance_ScaleSlip(instance) ==
    [project_id |-> instance.project_id,
     item_id |-> instance.item_id,
     position_x |-> instance.position_x,
     position_y |-> instance.position_y,
     position_z |-> instance.position_z,
     rotation_x |-> instance.rotation_x,
     rotation_y |-> instance.rotation_y,
     rotation_z |-> instance.rotation_z,
     scale_x |-> instance.scale_x,
     scale_y |-> instance.scale_y,
     scale_z |-> instance.scale_y]

\* Instance(project_id=instance.project_id, ..., scale_z=instance.scale_z)
NewInstance(instance) ==
    [project_id |-> instance.project_id,
     item_id |-> instance.item_id,
     position_x |-> instance.position_x,
     position_y |-> instance.position_y,
     position_z |-> instance.position_z,
     rotation_x |-> instance.rotation_x,
     rotation_y |-> instance.rotation_y,
     rotation_z |-> instance.rotation_z,
     scale_x |-> instance.scale_x,
     scale_y |-> instance.scale_y,
     scale_z |-> instance.scale_z]

\* The row an INSERT of new_instance stores under the id given to it.
StoredRow(id, new_instance) ==
    [id |-> id,
     project_id |-> new_instance.project_id,
     item_id |-> new_instance.item_id,
     position_x |-> new_instance.position_x,
     position_y |-> new_instance.position_y,
     position_z |-> new_instance.position_z,
     rotation_x |-> new_instance.rotation_x,
     rotation_y |-> new_instance.rotation_y,
     rotation_z |-> new_instance.rotation_z,
     scale_x |-> new_instance.scale_x,
     scale_y |-> new_instance.scale_y,
     scale_z |-> new_instance.scale_z]

\* Mutant of SetAttributes: the item_id and scale_z assignments left out, so
\* the row keeps what it held in those columns.
SetAttributes_Merge(existing_instance, instance_update) ==
    [existing_instance EXCEPT
        !.project_id = instance_update.project_id,
        !.position_x = instance_update.position_x,
        !.position_y = instance_update.position_y,
        !.position_z = instance_update.position_z,
        !.rotation_x = instance_update.rotation_x,
        !.rotation_y = instance_update.rotation_y,
        !.rotation_z = instance_update.rotation_z,
        !.scale_x = instance_update.scale_x,
        !.scale_y = instance_update.scale_y]

\* existing_instance.project_id = instance_update.project_id ... scale_z
SetAttributes(existing_instance, instance_update) ==
    [existing_instance EXCEPT
        !.project_id = instance_update.project_id,
        !.item_id = instance_update.item_id,
        !.position_x = instance_update.position_x,
        !.position_y = instance_update.position_y,
        !.position_z = instance_update.position_z,
        !.rotation_x = instance_update.rotation_x,
        !.rotation_y = instance_update.rotation_y,
        !.rotation_z = instance_update.rotation_z,
        !.scale_x = instance_update.scale_x,
        !.scale_y = instance_update.scale_y,
        !.scale_z = instance_update.scale_z]

\* The UPDATE the session flushes for an object loaded as `loaded` whose
\* attributes now read `dirty`: it sets the columns whose value changed,
\* WHERE id = loaded.id. With no changed column no statement is sent. A
\* statement that matches no row makes the flush fail (ok = FALSE).
FlushUpdate(tbl, loaded, dirty) ==
    LET changed == { f \in BodyFields : dirty[f] # loaded[f] }
        target  == FirstInstance(tbl, loaded.id)
    IN  IF changed = {} THEN [tbl |-> tbl, ok |-> TRUE, sent |-> FALSE]
        ELSE IF target = None THEN [tbl |-> tbl, ok |-> FALSE, sent |-> TRUE]
        ELSE [tbl |-> (tbl \ {target}) \cup
                      { [f \in DOMAIN target |->
                            IF f \in changed THEN dirty[f] ELSE target[f]] },
              ok |-> TRUE, sent |-> TRUE]

\* db.add(new_instance); db.commit(): INSERT under the next row id.
FlushInsert(tbl, new_instance) ==
    tbl \cup { StoredRow(NextRowId(tbl), new_instance) }

\* db.delete(instance); db.commit(): DELETE ... WHERE id = instance.id.
\* A statement that matches no row is only warned about.
FlushDelete(tbl, instance) ==
    { r \in tbl : r.id # instance.id }

\* db.refresh(obj): the row now stored under the object's id (None if gone).
Refresh(tbl, id) == FirstInstance(tbl, id)

\* db.query(Instance).all(): the rows in row-id order.
RECURSIVE AllInstances(_)
AllInstances(tbl) ==
    IF tbl = {} THEN <<>>
    ELSE LET r == CHOOSE x \in tbl : \A y \in tbl : x.id <= y.id
         IN  <<r>> \o AllInstances(tbl \ {r})

\* An exception the handler does not catch: the framework answers 500.
ServerError ==
    [status |-> 500, detail |-> "Internal Server Error", row |-> None,
     rows |-> <<>>, message |-> ""]

\* What a handler answers after db.refresh(obj): the refreshed row, or the
\* unhandled error of a refresh that finds no row.
Returned(row) == IF row = None THEN ServerError ELSE OkRow(row)

-----------------------------------------------------------------------------
(* The handlers, each as the function from the store and the request to the *)
(* store and the response that one whole call computes                      *)

\* Mutant of create_instance: the item is checked before the project.
create_instance_ItemFirst(tbl, projs, its, instance) ==
    LET project == FirstProject(projs, instance.project_id)
        item    == FirstItem(its, instance.item_id)
    IN  IF item = None
            THEN [tbl |-> tbl, resp |-> NotFound("Item not found")]
        ELSE IF project = None
            THEN [tbl |-> tbl, resp |-> NotFound("Project not found")]
        ELSE LET stored == FlushInsert(tbl, NewInstance(instance))
             IN  [tbl |-> stored, resp |-> Returned(Refresh(stored, NextRowId(tbl)))]

\* Mutant of create_instance: the row is added and committed before the item
\* check raises.
create_instance_LateItemCheck(tbl, projs, its, instance) ==
    LET project == FirstProject(projs, instance.project_id)
        item    == FirstItem(its, instance.item_id)
        stored  == FlushInsert(tbl, NewInstance(instance))
    IN  IF project = None
            THEN [tbl |-> tbl, resp |-> NotFound("Project not found")]
        ELSE IF item = None
            THEN [tbl |-> stored, resp |-> NotFound("Item not found")]
        ELSE [tbl |-> stored, resp |-> Returned(Refresh(stored, NextRowId(tbl)))]

create_instance(tbl, projs, its, instance) ==
    LET project == FirstProject(projs, instance.project_id)
        item    == FirstItem(its, instance.item_id)
    IN  IF project = None
            THEN [tbl |-> tbl, resp |-> NotFound("Project not found")]
        ELSE IF item = None
            THEN [tbl |-> tbl, resp |-> NotFound("Item not found")]
        ELSE LET new_instance == NewInstance(instance)
                 id           == NextRowId(tbl)
                 stored       == FlushInsert(tbl, new_instance)
             IN  [tbl |-> stored, resp |-> Returned(Refresh(stored, id))]

\* Mutant of update_instance: project and item are checked before the instance.
update_instance_FkFirst(tbl, projs, its, instance_id, instance_update) ==
    LET existing_instance == FirstInstance(tbl, instance_id)
        project == FirstProject(projs, instance_update.project_id)
        item    == FirstItem(its, instance_update.item_id)
    IN  IF project = None
            THEN [tbl |-> tbl, resp |-> NotFound("Project not found")]
        ELSE IF item = None
            THEN [tbl |-> tbl, resp |-> NotFound("Item not found")]
        ELSE IF existing_instance = None
            THEN [tbl |-> tbl, resp |-> NotFound("Instance not found")]
        ELSE LET dirty == SetAttributes(existing_instance, instance_update)
                 flush == FlushUpdate(tbl, existing_instance, dirty)
             IN  [tbl |-> flush.tbl,
                  resp |-> Returned(Refresh(flush.tbl, existing_instance.id))]

\* Mutant of update_instance: the project and item checks left out.
update_instance_NoFkCheck(tbl, projs, its, instance_id, instance_update) ==
    LET existing_instance == FirstInstance(tbl, instance_id)
    IN  IF existing_instance = None
            THEN [tbl |-> tbl, resp |-> NotFound("Instance not found")]
        ELSE LET dirty == SetAttributes(existing_instance, instance_update)
                 flush == FlushUpdate(tbl, existing_instance, dirty)
             IN  [tbl |-> flush.tbl,
                  resp |-> Returned(Refresh(flush.tbl, existing_instance.id))]

\* Mutant of update_instance: after the checks the body is saved as create
\* saves it, as a new row under a new id.
update_instance_AsInsert(tbl, projs, its, instance_id, instance_update) ==
    LET existing_instance == FirstInstance(tbl, instance_id)
        project == FirstProject(projs, instance_update.project_id)
        item    == FirstItem(its, instance_update.item_id)
    IN  IF existing_instance = None
            THEN [tbl |-> tbl, resp |-> NotFound("Instance not found")]
        ELSE IF project = None
            THEN [tbl |-> tbl, resp |-> NotFound("Project not found")]
        ELSE IF item = None
            THEN [tbl |-> tbl, resp |-> NotFound("Item not found")]
        ELSE LET stored == FlushInsert(tbl, NewInstance(instance_update))
             IN  [tbl |-> stored, resp |-> Returned(Refresh(stored, NextRowId(tbl)))]

update_instance(tbl, projs, its, instance_id, instance_update) ==
    LET existing_instance == FirstInstance(tbl, instance_id)
        project == FirstProject(projs, instance_update.project_id)
        item    == FirstItem(its, instance_update.item_id)
    IN  IF existing_instance = None
            THEN [tbl |-> tbl, resp |-> NotFound("Instance not found")]
        ELSE IF project = None
            THEN [tbl |-> tbl, resp |-> NotFound("Project not found")]
        ELSE IF item = None
            THEN [tbl |-> tbl, resp |-> NotFound("Item not found")]
        ELSE LET dirty == SetAttributes(existing_instance, instance_update)
                 flush == FlushUpdate(tbl, existing_instance, dirty)
             IN  IF ~flush.ok THEN [tbl |-> tbl, resp |-> ServerError]
                 ELSE [tbl |-> flush.tbl,
                       resp |-> Returned(Refresh(flush.tbl, existing_instance.id))]

get_instance(tbl, instance_id) ==
    LET instance == FirstInstance(tbl, instance_id)
    IN  IF instance = None
            THEN [tbl |-> tbl, resp |-> NotFound("Instance not found")]
        ELSE [tbl |-> tbl, resp |-> OkRow(instance)]

\* Mutant of list_instances: the query ends in first(), so at most one row
\* is returned.
list_instances_First(tbl) ==
    [tbl |-> tbl,
     resp |-> OkRows(IF tbl = {} THEN <<>> ELSE <<AllInstances(tbl)[1]>>)]

list_instances(tbl) ==
    [tbl |-> tbl, resp |-> OkRows(AllInstances(tbl))]

\* Mutant of delete_instance: db.delete(instance) left out, so the commit
\* removes nothing.
delete_instance_NoDelete(tbl, instance_id) ==
    LET instance == FirstInstance(tbl, instance_id)
    IN  IF instance = None
            THEN [tbl |-> tbl, resp |-> NotFound("Instance not found")]
        ELSE [tbl |-> tbl, resp |-> Deleted]

delete_instance(tbl, instance_id) ==
    LET instance == FirstInstance(tbl, instance_id)
    IN  IF instance = None
            THEN [tbl |-> tbl, resp |-> NotFound("Instance not found")]
        ELSE [tbl |-> FlushDelete(tbl, instance), resp |-> Deleted]

-----------------------------------------------------------------------------
(* Spec: the handlers run one at a time *)

NoPrev == [name |-> "none", id |-> 0, status |-> 0, row |-> None]

\* What is remembered of a call once the next one is handled: its name, the
\* id it addressed (for a successful create, the id assigned), its status
\* and, for a successful create, the row it returned.
Summary(o, r) ==
    IF o.name = "create" /\ r.status = 200
    THEN [name |-> o.name, id |-> r.row.id, status |-> r.status, row |-> r.row]
    ELSE [name |-> o.name, id |-> o.id, status |-> r.status, row |-> None]

\* The ids removed by a delete and not assigned again by a create, once the
\* call handled last has returned.
DeletedNow ==
    IF op.name = "delete" /\ resp.status = 204 THEN deleted \cup {op.id}
    ELSE IF op.name = "create" /\ resp.status = 200 THEN deleted \ {resp.row.id}
    ELSE deleted

Init ==
    /\ projects \in SUBSET SeedProjects
    /\ items \in SUBSET SeedItems
    /\ instances = {}
    /\ op = [name |-> "init", id |-> 0, body |-> NoBody]
    /\ resp = NoResp
    /\ before = {}
    /\ prev = NoPrev
    /\ created = <<>>
    /\ pristine = TRUE
    /\ deleted = {}
    /\ reqs = <<>>
    /\ commits = 0

\* The bookkeeping every call does: what was called, on which store.
Called(name, id, body, out) ==
    /\ instances' = out.tbl
    /\ resp' = out.resp
    /\ op' = [name |-> name, id |-> id, body |-> body]
    /\ before' = instances
    /\ prev' = Summary(op, resp)
    /\ deleted' = DeletedNow
    /\ UNCHANGED <<projects, items, reqs, commits>>

\* The history after a successful update or delete.
Disturbed(out) ==
    IF out.tbl = instances /\ out.resp.status = 404
    THEN UNCHANGED <<created, pristine>>
    ELSE /\ created' = <<>>
         /\ pristine' = (out.tbl = {})

Create ==
    \E body \in Bodies :
        LET out == create_instance(instances, projects, items, body)
        IN  /\ out.resp.status = 200 => NextRowId(instances) <= MaxId
            /\ Called("create", 0, body, out)
            /\ created' = IF out.resp.status = 200 /\ pristine
                          THEN Append(created, out.resp.row)
                          ELSE created
            /\ UNCHANGED pristine

Update ==
    \E id \in PathIds, body \in Bodies :
        LET out == update_instance(instances, projects, items, id, body)
        IN  /\ Called("update", id, body, out)
            /\ Disturbed(out)

Get ==
    \E id \in PathIds :
        /\ Called("get", id, NoBody, get_instance(instances, id))
        /\ UNCHANGED <<created, pristine>>

List ==
    /\ Called("list", 0, NoBody, list_instances(instances))
    /\ UNCHANGED <<created, pristine>>

Delete ==
    \E id \in PathIds :
        LET out == delete_instance(instances, id)
        IN  /\ Called("delete", id, NoBody, out)
            /\ Disturbed(out)

Next == Create \/ Update \/ Get \/ List \/ Delete

Spec == Init /\ [][Next]_vars

-----------------------------------------------------------------------------
(* Properties of Spec *)

ProjectResolves == op.body.project_id \in projects
ItemResolves    == op.body.item_id \in items
TargetExisted   == op.id \in Ids(before)

\* The rows of a table other than the one stored under id.
Others(tbl, id) == { r \in tbl : r.id # id }

\* C1: a create whose project_id resolves to no Project fails with 404
\* "Project not found", whether or not its item_id resolves, and leaves the
\* set of Instance rows as it was.
C1_CreateUnknownProject ==
    (op.name = "create" /\ ~ProjectResolves) =>
        /\ resp.status = 404
        /\ resp.detail = "Project not found"
        /\ instances = before

\* C1 witness: a create with neither foreign key resolving, on a non-empty table.
C1_Witness ==
    /\ op.name = "create"
    /\ ~ProjectResolves /\ ~ItemResolves
    /\ before # {}
    /\ resp.status = 404

\* C2: a create whose project_id resolves and whose item_id does not fails
\* with 404 "Item not found" and leaves the set of Instance rows as it was.
C2_CreateUnknownItem ==
    (op.name = "create" /\ ProjectResolves /\ ~ItemResolves) =>
        /\ resp.status = 404
        /\ resp.detail = "Item not found"
        /\ instances = before

\* C2 witness: such a create, on a non-empty table.
C2_Witness ==
    /\ op.name = "create"
    /\ ProjectResolves /\ ~ItemResolves
    /\ before # {}
    /\ resp.status = 404

\* C3: a create whose foreign keys both resolve persists exactly one new row
\* under an id no row had, with the request's eleven fields unchanged, and
\* returns it; a get of that id handled next returns that same row.
C3_CreateThenGet ==
    /\ (op.name = "create" /\ ProjectResolves /\ ItemResolves) =>
            /\ resp.status = 200
            /\ resp.row.id \notin Ids(before)
            /\ \A f \in BodyFields : resp.row[f] = op.body[f]
            /\ instances = before \cup {resp.row}
            /\ Cardinality(instances) = Cardinality(before) + 1
    /\ (op.name = "get" /\ prev.name = "create" /\ prev.status = 200
            /\ op.id = prev.id) =>
            /\ resp.status = 200
            /\ resp.row = prev.row

\* C3 witness: a get of the id just created, on a table that holds another row.
C3_Witness ==
    /\ op.name = "get"
    /\ prev.name = "create" /\ prev.status = 200
    /\ op.id = prev.id
    /\ resp.row = prev.row
    /\ Cardinality(instances) >= 2

\* C4: update checks the instance, then the project, then the item, and
\* answers 404 for the first that is missing; the table is then unchanged.
C4_UpdateCheckOrder ==
    op.name = "update" =>
        /\ ~TargetExisted =>
                /\ resp.status = 404
                /\ resp.detail = "Instance not found"
                /\ instances = before
        /\ (TargetExisted /\ ~ProjectResolves) =>
                /\ resp.status = 404
                /\ resp.detail = "Project not found"
                /\ instances = before
        /\ (TargetExisted /\ ProjectResolves /\ ~ItemResolves) =>
                /\ resp.status = 404
                /\ resp.detail = "Item not found"
                /\ instances = before

\* C4 witness: an update of a missing instance whose body's foreign keys
\* resolve to nothing either, on a non-empty table.
C4_Witness ==
    /\ op.name = "update"
    /\ ~TargetExisted /\ ~ProjectResolves /\ ~ItemResolves
    /\ before # {}
    /\ resp.detail = "Instance not found"

\* C5: an update of an existing instance with resolving foreign keys leaves
\* the targeted row holding the request's eleven fields, returns the stored
\* row, and leaves every other row as it was.
C5_UpdateFullReplace ==
    (op.name = "update" /\ TargetExisted /\ ProjectResolves /\ ItemResolves) =>
        /\ resp.status = 200
        /\ resp.row \in instances
        /\ resp.row.id = op.id
        /\ \A f \in BodyFields : resp.row[f] = op.body[f]
        /\ Others(instances, op.id) = Others(before, op.id)
        /\ Cardinality(instances) = Cardinality(before)

\* C5 witness: an update that changes every field of its row while the table
\* holds another row.
C5_Witness ==
    /\ op.name = "update" /\ resp.status = 200
    /\ \A f \in BodyFields : FirstInstance(before, op.id)[f] # op.body[f]
    /\ Others(before, op.id) # {}

\* C6: a delete of an existing id succeeds and removes that row alone; from
\* then on, until a create assigns that id again, every delete of that id
\* answers 404 "Instance not found" and changes nothing, and so does every
\* get of it, whether handled next or after other calls.
C6_DeleteTwice ==
    /\ (op.name = "delete" /\ TargetExisted) =>
            /\ resp.status = 204
            /\ op.id \notin Ids(instances)
            /\ instances = Others(before, op.id)
            /\ Cardinality(instances) = Cardinality(before) - 1
    /\ (op.name \in {"delete", "get"} /\ prev.name = "delete"
            /\ prev.status = 204 /\ prev.id = op.id) =>
            /\ resp.status = 404
            /\ resp.detail = "Instance not found"
            /\ instances = before
    /\ (op.name \in {"delete", "get"} /\ op.id \in deleted) =>
            /\ resp.status = 404
            /\ resp.detail = "Instance not found"
            /\ instances = before

\* C6 witness: delete(id) succeeded, a get(id) was handled after it, and now
\* a second delete(id) answers 404, with a row left behind.
C6_Witness ==
    /\ op.name = "delete"
    /\ op.id \in deleted
    /\ prev.name = "get" /\ prev.id = op.id /\ prev.status = 404
    /\ resp.status = 404
    /\ instances # {}

\* A get of a deleted id handled after a successful create that was given
\* another id, and after an update of another row.
C6_GetAfterOtherCalls ==
    /\ op.name = "get"
    /\ op.id \in deleted
    /\ prev.name \in {"create", "update"} /\ prev.status = 200
    /\ prev.id # op.id

Range(seq) == { seq[k] : k \in 1 .. Len(seq) }

\* C7: list never fails and changes nothing; on an empty table it returns
\* the empty sequence; after N successful creates from an empty table, with
\* no update or delete, it returns N rows with distinct ids, which are the
\* rows those creates returned.
C7_ListAfterCreates ==
    op.name = "list" =>
        /\ resp.status = 200
        /\ instances = before
        /\ before = {} => resp.rows = <<>>
        /\ pristine =>
                /\ Len(resp.rows) = Len(created)
                /\ Range(resp.rows) = Range(created)
                /\ \A j, k \in 1 .. Len(resp.rows) :
                        resp.rows[j].id = resp.rows[k].id => j = k

\* C7 witness: a list after two successful creates on an empty table.
C7_Witness ==
    /\ op.name = "list"
    /\ pristine
    /\ Len(created) >= 2
    /\ Len(resp.rows) = Len(created)

\* C9: every persisted Instance row references an existing Project and an
\* existing Item.
C9_ReferentialInvariant ==
    \A r \in instances :
        /\ r.project_id \in projects
        /\ r.item_id \in items

\* C9 witness: a successful update that moved a row to another project, with
\* two rows stored.
C9_Witness ==
    /\ op.name = "update" /\ resp.status = 200
    /\ FirstInstance(before, op.id).project_id # resp.row.project_id
    /\ Cardinality(instances) >= 2

\* C10: no two persisted rows share an id, and no call changes the id of a
\* row: only create adds an id, only delete removes one, a successful update
\* returns and stores its row under the id addressed, and get changes
\* nothing.
C10_PrimaryKeys ==
    /\ \A r1, r2 \in instances : r1.id = r2.id => r1 = r2
    /\ op.name # "create" => Ids(instances) \subseteq Ids(before)
    /\ op.name # "delete" => Ids(before) \subseteq Ids(instances)
    /\ (op.name = "update" /\ resp.status = 200) =>
            /\ resp.row.id = op.id
            /\ FirstInstance(instances, op.id) = resp.row
    /\ op.name = "get" => instances = before

\* C10 witness: a successful update that changed its row, with two rows stored.
C10_Witness ==
    /\ op.name = "update" /\ resp.status = 200
    /\ instances # before
    /\ resp.row.id = op.id
    /\ Cardinality(instances) >= 2

-----------------------------------------------------------------------------
(* SpecConc: two requests handled concurrently.  Each handler runs in its   *)
(* own session, so the object it loaded is private to it.  Every query is  *)
(* a step of its own and reads the committed table; the statement a commit  *)
(* flushes and the commit itself are one step, being one transaction.       *)

Slots == {1, 2}

\* The requests that may be in flight.
Requests ==
    { [name |-> "create", id |-> 0, body |-> b] : b \in Bodies }
    \cup { [name |-> "update", id |-> i, body |-> b] : i \in {1, 2}, b \in Bodies }
    \cup { [name |-> n, id |-> i, body |-> NoBody] : n \in {"get", "delete"}, i \in {1, 2} }
    \cup { [name |-> "list", id |-> 0, body |-> NoBody] }

\* The tables the requests may find: empty, or one row created earlier.
StartTables == { {} } \cup { {StoredRow(1, NewInstance(b))} : b \in ValidBodies }

\* A request about to be handled.  loaded is the object its session holds,
\* project the result of its project lookup,
\* checkedAt the number of commits when it made its first check, wroteAt the
\* number of commits when its own write was sent (-1 while it has sent none),
\* hit whether that write found its row.
Arrived(r) ==
    [name |-> r.name, id |-> r.id, body |-> r.body, pc |-> "start",
     loaded |-> None, project |-> None, resp |-> NoResp, checkedAt |-> -1,
     wroteAt |-> -1, hit |-> FALSE]

InitConc ==
    /\ projects = SeedProjects
    /\ items = SeedItems
    /\ instances \in StartTables
    /\ before = instances
    /\ reqs \in [Slots -> { Arrived(r) : r \in Requests }]
    /\ commits = 0
    /\ op = [name |-> "init", id |-> 0, body |-> NoBody]
    /\ resp = NoResp
    /\ prev = NoPrev
    /\ created = <<>>
    /\ pristine = TRUE
    /\ deleted = {}

Idle == UNCHANGED <<projects, items, op, resp, before, prev, created, pristine,
                    deleted>>

\* The request answers and its handler returns.
Answer(s, response) ==
    reqs' = [reqs EXCEPT ![s].resp = response, ![s].pc = "done"]

\* create_instance, line 31: the project lookup.
CreateProjectLookup(s) ==
    /\ reqs[s].name = "create" /\ reqs[s].pc = "start"
    /\ reqs' = [reqs EXCEPT
            ![s].pc = "project",
            ![s].project = FirstProject(projects, reqs[s].body.project_id),
            ![s].checkedAt = commits]
    /\ UNCHANGED <<instances, commits>>
    /\ Idle

\* create_instance, lines 32-36: the item lookup, then the two 404s.
CreateItemLookup(s) ==
    /\ reqs[s].name = "create" /\ reqs[s].pc = "project"
    /\ LET project == reqs[s].project
           item    == FirstItem(items, reqs[s].body.item_id)
       IN  IF project = None THEN Answer(s, NotFound("Project not found"))
           ELSE IF item = None THEN Answer(s, NotFound("Item not found"))
           ELSE reqs' = [reqs EXCEPT ![s].pc = "checked"]
    /\ UNCHANGED <<instances, commits>>
    /\ Idle

\* create_instance, lines 39-53: build the object, add, commit.
CreateCommit(s) ==
    /\ reqs[s].name = "create" /\ reqs[s].pc = "checked"
    /\ instances' = FlushInsert(instances, NewInstance(reqs[s].body))
    /\ commits' = commits + 1
    /\ reqs' = [reqs EXCEPT ![s].pc = "committed",
                            ![s].loaded = [id |-> NextRowId(instances)],
                            ![s].wroteAt = commits,
                            ![s].hit = TRUE]
    /\ Idle

\* create_instance, lines 54-55: refresh and return.
CreateRefresh(s) ==
    /\ reqs[s].name = "create" /\ reqs[s].pc = "committed"
    /\ Answer(s, Returned(Refresh(instances, reqs[s].loaded.id)))
    /\ UNCHANGED <<instances, commits>>
    /\ Idle

\* update_instance, lines 78-80: load the instance or answer 404.
UpdateLoad(s) ==
    /\ reqs[s].name = "update" /\ reqs[s].pc = "start"
    /\ LET existing_instance == FirstInstance(instances, reqs[s].id)
       IN  IF existing_instance = None
           THEN Answer(s, NotFound("Instance not found"))
           ELSE reqs' = [reqs EXCEPT ![s].pc = "loaded",
                                     ![s].loaded = existing_instance,
                                     ![s].checkedAt = commits]
    /\ UNCHANGED <<instances, commits>>
    /\ Idle

\* update_instance, line 83: the project lookup.
UpdateProjectLookup(s) ==
    /\ reqs[s].name = "update" /\ reqs[s].pc = "loaded"
    /\ reqs' = [reqs EXCEPT
            ![s].pc = "project",
            ![s].project = FirstProject(projects, reqs[s].body.project_id)]
    /\ UNCHANGED <<instances, commits>>
    /\ Idle

\* update_instance, lines 84-88: the item lookup, then the two 404s.
UpdateItemLookup(s) ==
    /\ reqs[s].name = "update" /\ reqs[s].pc = "project"
    /\ LET project == reqs[s].project
           item    == FirstItem(items, reqs[s].body.item_id)
       IN  IF project = None THEN Answer(s, NotFound("Project not found"))
           ELSE IF item = None THEN Answer(s, NotFound("Item not found"))
           ELSE reqs' = [reqs EXCEPT ![s].pc = "checked"]
    /\ UNCHANGED <<instances, commits>>
    /\ Idle

\* update_instance, lines 91-104: set the attributes of the loaded object
\* and commit.  A flush whose UPDATE matches no row raises, unhandled.
UpdateCommit(s) ==
    /\ reqs[s].name = "update" /\ reqs[s].pc = "checked"
    /\ LET dirty == SetAttributes(reqs[s].loaded, reqs[s].body)
           flush == FlushUpdate(instances, reqs[s].loaded, dirty)
       IN  IF ~flush.ok
           THEN /\ Answer(s, ServerError)
                /\ UNCHANGED <<instances, commits>>
           ELSE /\ instances' = flush.tbl
                /\ commits' = IF flush.sent THEN commits + 1 ELSE commits
                /\ reqs' = [reqs EXCEPT
                        ![s].pc = "committed",
                        ![s].loaded = dirty,
                        ![s].wroteAt = IF flush.sent THEN commits ELSE -1,
                        ![s].hit = flush.sent]
    /\ Idle

\* update_instance, lines 105-106: refresh and return.
UpdateRefresh(s) ==
    /\ reqs[s].name = "update" /\ reqs[s].pc = "committed"
    /\ Answer(s, Returned(Refresh(instances, reqs[s].loaded.id)))
    /\ UNCHANGED <<instances, commits>>
    /\ Idle

\* get_instance, lines 127-130.
GetStep(s) ==
    /\ reqs[s].name = "get" /\ reqs[s].pc = "start"
    /\ Answer(s, get_instance(instances, reqs[s].id).resp)
    /\ UNCHANGED <<instances, commits>>
    /\ Idle

\* list_instances, lines 146-147.
ListStep(s) ==
    /\ reqs[s].name = "list" /\ reqs[s].pc = "start"
    /\ Answer(s, list_instances(instances).resp)
    /\ UNCHANGED <<instances, commits>>
    /\ Idle

\* delete_instance, lines 168-170: load the instance or answer 404.
DeleteLoad(s) ==
    /\ reqs[s].name = "delete" /\ reqs[s].pc = "start"
    /\ LET instance == FirstInstance(instances, reqs[s].id)
       IN  IF instance = None
           THEN Answer(s, NotFound("Instance not found"))
           ELSE reqs' = [reqs EXCEPT ![s].pc = "loaded",
                                     ![s].loaded = instance,
                                     ![s].checkedAt = commits]
    /\ UNCHANGED <<instances, commits>>
    /\ Idle

\* delete_instance, lines 171-173: delete, commit, return the message.
DeleteCommit(s) ==
    /\ reqs[s].name = "delete" /\ reqs[s].pc = "loaded"
    /\ instances' = FlushDelete(instances, reqs[s].loaded)
    /\ commits' = commits + 1
    /\ reqs' = [reqs EXCEPT
            ![s].pc = "done",
            ![s].resp = Deleted,
            ![s].wroteAt = commits,
            ![s].hit = (FirstInstance(instances, reqs[s].loaded.id) # None)]
    /\ Idle

NextConc ==
    \E s \in Slots :
        \/ CreateProjectLookup(s) \/ CreateItemLookup(s)
        \/ CreateCommit(s) \/ CreateRefresh(s)
        \/ UpdateLoad(s) \/ UpdateProjectLookup(s) \/ UpdateItemLookup(s)
        \/ UpdateCommit(s) \/ UpdateRefresh(s)
        \/ GetStep(s) \/ ListStep(s)
        \/ DeleteLoad(s) \/ DeleteCommit(s)

SpecConc == InitConc /\ [][NextConc]_vars

-----------------------------------------------------------------------------
(* Properties of SpecConc *)

\* One whole call of the handler a request names.
Handle(tbl, r) ==
    IF r.name = "create" THEN create_instance(tbl, projects, items, r.body)
    ELSE IF r.name = "update" THEN update_instance(tbl, projects, items, r.id, r.body)
    ELSE IF r.name = "get" THEN get_instance(tbl, r.id)
    ELSE IF r.name = "list" THEN list_instances(tbl)
    ELSE delete_instance(tbl, r.id)

\* The table and the responses are those of handling a whole, then b whole.
AsIfInOrder(a, b) ==
    LET first  == Handle(before, reqs[a])
        second == Handle(first.tbl, reqs[b])
    IN  /\ instances = second.tbl
        /\ reqs[a].resp = first.resp
        /\ reqs[b].resp = second.resp

AllDone == \A s \in Slots : reqs[s].pc = "done"

\* No other request's commit falls between a request's first check and its
\* own write.
ChecksAndWriteTogether ==
    \A s \in Slots : reqs[s].wroteAt # -1 => reqs[s].wroteAt = reqs[s].checkedAt

\* Once both requests have returned, the table and both responses are those
\* of one of the two sequential orders.
Serializable ==
    AllDone => (AsIfInOrder(1, 2) \/ AsIfInOrder(2, 1))

\* No update's write is committed for a row that is no longer there.
NoUpdateOfDeletedRow ==
    \A s \in Slots :
        (reqs[s].name = "update" /\ reqs[s].wroteAt # -1) => reqs[s].hit

\* C8: each call is atomic with respect to concurrent requests, stated by
\* what that promises the callers: once the requests have returned, the table
\* and every response are those of some sequential order of the requests,
\* and no update has committed to a row already deleted.  (The premise the
\* claim gives for it is ChecksAndWriteTogether.)
C8_AtomicRequests ==
    /\ Serializable
    /\ NoUpdateOfDeletedRow

\* Outcomes of SpecConc that no sequential order has: an update answered
\* with a server error, and a stored row that mixes the bodies of two
\* updates and equals neither.
StaleUpdateAnswered ==
    \E s \in Slots : reqs[s].name = "update" /\ reqs[s].resp.status = 500

MergedRowStored ==
    /\ AllDone
    /\ \A s \in Slots : reqs[s].name = "update" /\ reqs[s].resp.status = 200
    /\ \E r \in instances :
          \A s \in Slots : \E f \in BodyFields : r[f] # reqs[s].body[f]

====
